---------------------------- MODULE Spec2Model ----------------------------
(***************************************************************************)
(* Botify: the Quick Connect pairing / session state machine, the          *)
(* background task dispatcher (Worker) and the settings dialog, as a       *)
(* state machine.  Strings that the code transforms (server URLs) are      *)
(* sequences of one-character strings, so that strip / startswith /        *)
(* rstrip are computed as Python computes them.                            *)
(***************************************************************************)
EXTENDS Integers, Sequences, FiniteSets, Bags, TLC

VARIABLES
    settings,     \* QSettings: [server, token, user_id, device_id], None = key absent
    device_id,    \* MainWindow.device_id
    heap,         \* the AuthState objects, by reference
    mainClient,   \* MainWindow.client: reference of its AuthState, 0 = no attribute
    mainStack,    \* MainWindow.stack index: 0 onboarding, 1 app view
    pendingLoad,  \* QTimer.singleShot(0, load_tracks) not yet fired
    catalog,      \* the table's TracksModel rows, None = no model set
    widget,       \* which pairing widget drives the Quick Connect flow
    obClient,     \* pairing widget's client: reference of its AuthState, 0 = None
    obPage,       \* OnboardingWidget.stack index: 0 server page, 1 quick connect page
    secret,       \* pairing widget's secret
    timerActive,  \* poll_timer.isActive()
    tasks,        \* bag of Workers handed to the thread pool and not yet delivered
    session,      \* observation: exchanges dispatched for the current secret
    norm,         \* scratch of the normalizeServer round trip: [pc, raw, once, twice]
    bar,          \* PlaybackBar: the seek slider, _seeking and the QMediaPlayer
    fmt,          \* scratch of the duration formatting: [pc, item, column, preview]
    look,         \* scratch of the catalog row lookups: [pc, rows, path, row, col, out]
    call          \* scratch of one client operation on one response: [pc, op, r, out, sig]

vars == <<settings, device_id, heap, mainClient, mainStack, pendingLoad, catalog,
          widget, obClient, obPage, secret, timerActive, tasks, session, norm, bar, fmt, look, call>>

appVars == <<settings, device_id, heap, mainClient, mainStack, pendingLoad, catalog,
             widget, obClient, obPage, secret, timerActive, tasks, session>>

\* the variables by owner, for the frames of the actions
winVars == <<settings, device_id, mainStack, pendingLoad, catalog>>
pairVars == <<widget, obPage, secret, timerActive, session>>
objVars == <<heap, mainClient, obClient>>
\* what the onboarding, pairing and loading handlers never touch
aux == <<norm, bar, fmt, look, call>>

None == "None"

---------------------------------------------------------------------------
(* Bounds of the model.                                                    *)

\* Workers that may be in the thread pool or awaiting delivery at once.
MaxTasks == 2
\* Trailing characters appended to a raw server string fed to _clean_server.
MaxTail == 2

---------------------------------------------------------------------------
(* Strings.                                                                *)

HTTP == <<"h", "t", "t", "p", ":", "/", "/">>
HTTPS == <<"h", "t", "t", "p", "s", ":", "/", "/">>

startswith(s, p) == Len(s) >= Len(p) /\ SubSeq(s, 1, Len(p)) = p

RECURSIVE lstrip(_)
lstrip(s) == IF s # <<>> /\ Head(s) = " " THEN lstrip(Tail(s)) ELSE s

RECURSIVE rstrip(_, _)
rstrip(s, c) ==
    IF s # <<>> /\ s[Len(s)] = c THEN rstrip(SubSeq(s, 1, Len(s) - 1), c) ELSE s

\* str.strip(): whitespace removed at both ends
strip(s) == rstrip(lstrip(s), " ")

\* JellyfinClient._clean_server
_clean_server(server) ==
    LET s == strip(server)
        t == IF ~startswith(s, HTTP) /\ ~startswith(s, HTTPS) THEN HTTP \o s ELSE s
    IN  rstrip(t, "/")

\* an absent server text (None), apart from every text
NoServer == <<None>>

\* Python truthiness of an optional string: None and "" are false
truthy(v) == v # None /\ v # ""
truthyText(v) == v # NoServer /\ v # <<>>

---------------------------------------------------------------------------
(* The normalizeServer round trip, on raw strings built from pieces.       *)

Leads == {<<>>, <<" ">>}
Schemes == {<<>>, HTTP, HTTPS, <<"h", "t", "t", "p", ":">>}
Hosts == {<<>>, <<"a">>, <<"a", "/", "b">>}

RECURSIVE TailsOf(_)
TailsOf(n) ==
    IF n = 0 THEN {<<>>}
    ELSE LET shorter == TailsOf(n - 1)
         IN  shorter \cup {t \o <<c>> : t \in shorter, c \in {"/", " "}}

RawServers == {l \o s \o h \o t : l \in Leads, s \in Schemes, h \in Hosts,
                                  t \in TailsOf(MaxTail)}

NormIdle == [pc |-> "idle", raw |-> <<>>, once |-> <<>>, twice |-> <<>>]

NormPick ==
    /\ norm.pc = "idle"
    /\ \E raw \in RawServers : norm' = [NormIdle EXCEPT !.pc = "raw", !.raw = raw]
    /\ UNCHANGED <<appVars, bar, fmt, look, call>>

NormOnce ==
    /\ norm.pc = "raw"
    /\ norm' = [norm EXCEPT !.pc = "once", !.once = _clean_server(norm.raw)]
    /\ UNCHANGED <<appVars, bar, fmt, look, call>>

NormTwice ==
    /\ norm.pc = "once"
    /\ norm' = [norm EXCEPT !.pc = "twice", !.twice = _clean_server(norm.once)]
    /\ UNCHANGED <<appVars, bar, fmt, look, call>>

---------------------------------------------------------------------------
\* PlaybackBar: the seek slider and the player it drives

\* positions and durations the engine reports, in slider units
MaxPos == 3
Positions == 0 .. MaxPos
Durations == (0 - 1) .. MaxPos

\* PlaybackBar.__init__: seek.setRange(0, 0), _seeking = False.  Observations:
\* sets and target, the calls of player.setPosition since the last press and
\* the last argument; heard, a positionChanged arrived since the last press
\* while the handle was held
BarInit == [seeking |-> FALSE, value |-> 0, max |-> 0, position |-> 0,
            duration |-> 0, sets |-> 0, target |-> 0, heard |-> FALSE]

\* QAbstractSlider keeps its value inside [minimum, maximum]
clamp(v, hi) == IF v < 0 THEN 0 ELSE IF v > hi THEN hi ELSE v

\* QSlider.setValue
setValue(b, v) == [b EXCEPT !.value = clamp(v, b.max)]

\* QSlider.setRange(0, hi): the value is pulled back into the new range
setRange(b, hi) == [b EXCEPT !.max = hi, !.value = clamp(b.value, hi)]

\* QMediaPlayer.setPosition
setPosition(b, v) ==
    [b EXCEPT !.position = v, !.target = v, !.sets = IF b.sets < 2 THEN b.sets + 1 ELSE 2]

_seek_pressed(b) == [b EXCEPT !.seeking = TRUE]

_seek_released(b) == setPosition([b EXCEPT !.seeking = FALSE], b.value)

\* only the time label is rewritten
_seek_moved(b, pos) == b

on_position_unguarded(b, position) ==
    setValue(b, position)

_on_position(b, position) ==
    IF ~b.seeking THEN setValue(b, position) ELSE b

_on_duration(b, duration) ==
    setRange(b, IF duration > 0 THEN duration ELSE 0)

\* the user presses the slider handle: sliderPressed
SeekPressed ==
    /\ ~bar.seeking
    /\ bar' = _seek_pressed([bar EXCEPT !.sets = 0, !.heard = FALSE])
    /\ UNCHANGED <<appVars, norm, fmt, look, call>>

\* the user drags the handle to pos: the slider tracks it, then sliderMoved(pos)
SeekMoved(pos) ==
    /\ bar.seeking
    /\ pos <= bar.max
    /\ bar' = _seek_moved([bar EXCEPT !.value = pos], pos)
    /\ UNCHANGED <<appVars, norm, fmt, look, call>>

\* the user lets go of the handle: sliderReleased
SeekReleased ==
    /\ bar.seeking
    /\ bar' = _seek_released(bar)
    /\ UNCHANGED <<appVars, norm, fmt, look, call>>

\* the engine reports a new position: positionChanged(p)
PositionChanged(p) ==
    /\ bar' = _on_position([bar EXCEPT !.position = p,
                                        !.heard = bar.heard \/ bar.seeking], p)
    /\ UNCHANGED <<appVars, norm, fmt, look, call>>

\* the engine reports the duration of the media: durationChanged(d)
DurationChanged(d) ==
    /\ bar' = _on_duration([bar EXCEPT !.duration = d], d)
    /\ UNCHANGED <<appVars, norm, fmt, look, call>>

NextBar ==
    \/ SeekPressed
    \/ \E pos \in Positions : SeekMoved(pos)
    \/ SeekReleased
    \/ \E p \in Positions : PositionChanged(p)
    \/ \E d \in Durations : DurationChanged(d)

---------------------------------------------------------------------------
\* The Duration text of a track.  RunTimeTicks is a Python int of any size: it
\* is held as its binary digits, most significant first (<<>> is 0), and a
\* Python float as [mant, exp], worth mant * 2^exp with mant of 53 bits.

Front(b) == SubSeq(b, 1, Len(b) - 1)
Last(b) == b[Len(b)]

RECURSIVE trim(_)
trim(b) == IF b # <<>> /\ Head(b) = 0 THEN trim(Tail(b)) ELSE b

RECURSIVE Bits(_)
Bits(n) == IF n = 0 THEN <<>> ELSE Bits(n \div 2) \o <<n % 2>>

\* the arithmetic below takes the digits Chunk at a time; the small operand
\* times 2^Chunk stays inside a machine word
Chunk == 6

\* the number a short run of digits stands for, and back, in w digits
RECURSIVE Val(_)
Val(b) == IF b = <<>> THEN 0 ELSE 2 * Val(Front(b)) + Last(b)

Pad(n, w) == [i \in 1 .. w |-> (n \div 2 ^ (w - i)) % 2]

\* b * m + c, for small m and c
RECURSIVE MulAdd(_, _, _)
MulAdd(b, m, c) ==
    IF b = <<>>
    THEN Bits(c)
    ELSE LET n == Len(b)
             w == IF n < Chunk THEN n ELSE Chunk
             x == Val(SubSeq(b, n - w + 1, n)) * m + c
         IN  MulAdd(SubSeq(b, 1, n - w), m, x \div 2 ^ w) \o Pad(x % 2 ^ w, w)

\* long division of b by a small d: the quotient digit for digit, and the rest
RECURSIVE DivMod(_, _)
DivMod(b, d) ==
    IF Len(b) <= Chunk
    THEN [q |-> Pad(Val(b) \div d, Len(b)), r |-> Val(b) % d]
    ELSE LET n == Len(b)
             p == DivMod(SubSeq(b, 1, n - Chunk), d)
             x == p.r * 2 ^ Chunk + Val(SubSeq(b, n - Chunk + 1, n))
         IN  [q |-> p.q \o Pad(x \div d, Chunk), r |-> x % d]

\* Python divmod(a, d) on non-negative a
divmod(b, d) == LET p == DivMod(b, d) IN [q |-> trim(p.q), r |-> p.r]

Zeros(n) == [i \in 1 .. n |-> 0]

Mantissa == 53

\* the next k binary places of r / d, for r < d, and what is left over
RECURSIVE Places(_, _, _)
Places(r, d, k) ==
    IF k = 0
    THEN [q |-> <<>>, r |-> r]
    ELSE LET w == IF k < Chunk THEN k ELSE Chunk
             x == r * 2 ^ w
             p == Places(x % d, d, k - w)
         IN  [q |-> Pad(x \div d, w) \o p.q, r |-> p.r]

\* Python a / d on ints: the float nearest to the exact quotient, ties to even.
\* The quotient is carried to two digits past the mantissa before rounding.
truediv(a, d) ==
    IF a = <<>>
    THEN [mant |-> <<>>, exp |-> 0]
    ELSE LET whole == divmod(a, d)
             k == IF Len(whole.q) >= Mantissa + 2
                  THEN 0
                  ELSE Mantissa + 2 - Len(whole.q) + Len(Bits(d))
             frac == Places(whole.r, d, k)
             all == trim(whole.q \o frac.q)
             n == Len(all)
             kept == SubSeq(all, 1, Mantissa)
             half == all[Mantissa + 1] = 1
             rest == frac.r # 0 \/ \E i \in (Mantissa + 2) .. n : all[i] = 1
             up == half /\ (rest \/ Last(kept) = 1)
         IN  [mant |-> IF up THEN MulAdd(kept, 1, 1) ELSE kept,
              exp |-> n - Mantissa - k]

\* Python int(f): the float cut towards zero
int(f) ==
    IF f.exp >= 0
    THEN f.mant \o Zeros(f.exp)
    ELSE IF Len(f.mant) + f.exp <= 0 THEN <<>> ELSE SubSeq(f.mant, 1, Len(f.mant) + f.exp)

Digits == <<"0", "1", "2", "3", "4", "5", "6", "7", "8", "9">>

\* str(n) of a non-negative Python int
RECURSIVE digits(_)
digits(b) ==
    IF b = <<>>
    THEN <<>>
    ELSE LET p == divmod(b, 10) IN digits(p.q) \o <<Digits[p.r + 1]>>

str(b) == IF b = <<>> THEN <<"0">> ELSE digits(b)

\* f"{s:02d}" for 0 <= s < 60
two(s) == <<Digits[(s \div 10) + 1], Digits[(s % 10) + 1]>>

TicksPerSecond == 10000000

\* item.get("RunTimeTicks") or 0
ticks_of(item) ==
    IF "RunTimeTicks" \in item.keys /\ item.RunTimeTicks # <<>>
    THEN item.RunTimeTicks
    ELSE <<>>

\* TracksModel.data, column 3
TracksModel_duration(item) ==
    LET ticks == ticks_of(item)
        seconds == int(truediv(ticks, TicksPerSecond))
        ms == divmod(seconds, 60)
    IN  str(ms.q) \o <<":">> \o two(ms.r)

\* TrackPreview.set_track: dur
TrackPreview_dur(track) ==
    LET ticks == ticks_of(track)
        seconds == int(truediv(ticks, TicksPerSecond))
        ms == divmod(seconds, 60)
    IN  str(ms.q) \o <<":">> \o two(ms.r)

\* the catalog items whose duration is formatted: whole seconds up to
\* MaxSecs and around 2^30, with the ticks left over inside the second
MaxSecs == 130
LongTrack == 2 ^ 30
SecondSamples == (0 .. MaxSecs) \cup {LongTrack - 1, LongTrack, LongTrack + 1}
TickRests == {0, 1, TicksPerSecond - 1}
TickSamples ==
    {MulAdd(Bits(n), TicksPerSecond, r) : n \in SecondSamples, r \in TickRests}
\* an item of the listing: the keys its JSON object has, and RunTimeTicks
NoTicks == [keys |-> {}, RunTimeTicks |-> <<>>]
FmtItems == {[keys |-> {"RunTimeTicks"}, RunTimeTicks |-> t] : t \in TickSamples}
            \cup {NoTicks}

FmtIdle == [pc |-> "idle", item |-> NoTicks, column |-> <<>>, preview |-> <<>>]

\* a catalog item comes into the table
FmtPick ==
    /\ fmt.pc = "idle"
    /\ \E item \in FmtItems : fmt' = [FmtIdle EXCEPT !.pc = "item", !.item = item]
    /\ UNCHANGED <<appVars, norm, bar, look, call>>

\* the view asks the model for the Duration cell
FmtColumn ==
    /\ fmt.pc = "item"
    /\ fmt' = [fmt EXCEPT !.pc = "column", !.column = TracksModel_duration(fmt.item)]
    /\ UNCHANGED <<appVars, norm, bar, look, call>>

\* the row is clicked: the preview panel shows the track
FmtPreview ==
    /\ fmt.pc = "column"
    /\ fmt' = [fmt EXCEPT !.pc = "preview", !.preview = TrackPreview_dur(fmt.item)]
    /\ UNCHANGED <<appVars, norm, bar, look, call>>

NextFmt ==
    \/ FmtPick
    \/ FmtColumn
    \/ FmtPreview

---------------------------------------------------------------------------
\* Looking a catalog row up by its index

MaxRows == 2

\* TracksModel.rows of n items, each with its Id
RowsOf(n) == [i \in 1 .. n |-> [Id |-> Digits[i + 1]]]
RowLists == {RowsOf(n) : n \in 0 .. MaxRows}
RowNumbers == (0 - (MaxRows + 1)) .. (MaxRows + 1)

\* what a lookup gives back: an Id, None, or an exception
Found(id) == [tag |-> "value", id |-> id]
NotFound == [tag |-> "none", id |-> None]
IndexError == [tag |-> "raise", id |-> "IndexError"]

\* Python rows[i]: a negative i counts from the end
getitem(rows, i) ==
    LET n == Len(rows)
    IN  IF 0 <= i /\ i < n
        THEN Found(rows[i + 1].Id)
        ELSE IF 0 - n <= i /\ i < 0 THEN Found(rows[n + i + 1].Id) ELSE IndexError

itemId(rows, row) ==
    IF 0 <= row /\ row < Len(rows) THEN Found(rows[row + 1].Id) ELSE NotFound

\* QModelIndex.isValid of an index that belongs to a model
isValid(index) == index.row >= 0 /\ index.column >= 0

\* TracksModel.data(index, DisplayRole), the Id column
TracksModel_data(rows, index) ==
    IF ~isValid(index) THEN NotFound ELSE getitem(rows, index.row)

\* MainWindow._preview_selected: the track handed to the preview panel
_preview_selected(hasModel, rows, index) ==
    IF ~hasModel THEN NotFound ELSE getitem(rows, index.row)

\* MainWindow._play_selected: the track handed to the player
_play_selected(hasModel, rows, index) ==
    IF ~hasModel THEN NotFound ELSE getitem(rows, index.row)

IdColumn == 4
Paths == {"itemId", "data", "preview", "play"}

LookIdle == [pc |-> "idle", rows |-> <<>>, path |-> "itemId", row |-> 0,
             out |-> NotFound]

\* an index reaches one of the lookups: QModelIndex() has row -1 and column -1
IndexOf(row) == [row |-> row, column |-> IF row < 0 THEN 0 - 1 ELSE IdColumn]

LookPick ==
    /\ look.pc = "idle"
    /\ \E rows \in RowLists, path \in Paths, row \in RowNumbers :
        look' = [LookIdle EXCEPT !.pc = "asked", !.rows = rows, !.path = path,
                                 !.row = row]
    /\ UNCHANGED <<appVars, norm, bar, fmt, call>>

LookItemId ==
    /\ look.pc = "asked" /\ look.path = "itemId"
    /\ look' = [look EXCEPT !.pc = "done", !.out = itemId(look.rows, look.row)]
    /\ UNCHANGED <<appVars, norm, bar, fmt, call>>

LookData ==
    /\ look.pc = "asked" /\ look.path = "data"
    /\ look' = [look EXCEPT !.pc = "done",
                            !.out = TracksModel_data(look.rows, IndexOf(look.row))]
    /\ UNCHANGED <<appVars, norm, bar, fmt, call>>

LookPreview ==
    /\ look.pc = "asked" /\ look.path = "preview"
    /\ look' = [look EXCEPT !.pc = "done",
                            !.out = _preview_selected(TRUE, look.rows, IndexOf(look.row))]
    /\ UNCHANGED <<appVars, norm, bar, fmt, call>>

LookPlay ==
    /\ look.pc = "asked" /\ look.path = "play"
    /\ look' = [look EXCEPT !.pc = "done",
                            !.out = _play_selected(TRUE, look.rows, IndexOf(look.row))]
    /\ UNCHANGED <<appVars, norm, bar, fmt, call>>

NextLook ==
    \/ LookPick
    \/ LookItemId
    \/ LookData
    \/ LookPreview
    \/ LookPlay


---------------------------------------------------------------------------
(* Values of the environment.                                              *)

DeviceIds == {"d1", "d2"}         \* what uuid.uuid4() may return
Tokens == {"t1"}                  \* access tokens the server issues
Users == {"u1"}                   \* user ids the server issues
Secrets == {"s1"}                 \* Quick Connect secrets the server issues
TrackLists == {<<"i2", "i1">>}
ImageKinds == {"preview", "cover"}    \* Items of a track listing, by Id
\* texts the user types into a server field
InputTexts == {<<>>, <<"a", "/">>}
Widgets == {"OnboardingWidget", "QuickConnectWidget"}

\* what a unit of work produces: a value (the fields its callbacks read) or an
\* exception
NoData == [Secret |-> None, Authenticated |-> FALSE, Error |-> None,
           AccessToken |-> None, UserId |-> None, Items |-> <<>>]
NoResult == [tag |-> "none", exc |-> None, data |-> NoData]
Raised(exc) == [tag |-> "raise", exc |-> exc, data |-> NoData]
Value(d) == [tag |-> "value", exc |-> None, data |-> d]

---------------------------------------------------------------------------
(* AuthState objects and the references to them.                           *)

Refs == 1 .. (MaxTasks + 2)

Free == [server |-> <<>>, device_id |-> None, token |-> None, user_id |-> None]

\* AuthState(server=self._clean_server(server), device_id=..., device_name=...)
JellyfinClient(server, dev) ==
    [server |-> _clean_server(server), device_id |-> dev,
     token |-> None, user_id |-> None]

LiveOf(mc, oc, tk) == ({mc, oc} \cup {t.client : t \in BagToSet(tk)}) \ {0}

\* a reference no client and no running task holds
NewRef == CHOOSE r \in Refs : r \notin LiveOf(mainClient, obClient, tasks)

\* References are names only.  After a step the objects still referred to are
\* renamed: the main window's AuthState is 1, the pairing widget's is 2 (1 when
\* it is the same object), those only a running task holds follow, and the
\* objects nothing refers to are reclaimed.
Renamed(r, mc, oc, tk) ==
    IF r = 0 THEN 0
    ELSE IF r = mc THEN 1
    ELSE IF r = oc THEN 2
    ELSE 2 + Cardinality({q \in LiveOf(mc, oc, tk) \ {mc, oc} : q <= r})

Commit(hp, mc, oc, tk) ==
    LET live == LiveOf(mc, oc, tk)
        to(r) == Renamed(r, mc, oc, tk)
        moved(t) == [t EXCEPT !.client = to(@)]
    IN  /\ mainClient' = to(mc)
        /\ obClient' = to(oc)
        /\ heap' = [n \in Refs |-> IF \E r \in live : to(r) = n
                                   THEN hp[CHOOSE r \in live : to(r) = n]
                                   ELSE Free]
        /\ tasks' = [u \in {moved(t) : t \in BagToSet(tk)} |->
                        tk[CHOOSE t \in BagToSet(tk) : moved(t) = u]]

---------------------------------------------------------------------------
(* Worker: the background task dispatcher.                                 *)

Task(kind, client) ==
    [kind |-> kind, st |-> "queued", client |-> client, secret |-> None,
     auth |-> <<>>, sent |-> 0, res |-> NoResult, pending |-> <<>>, ok |-> 0, err |-> 0]

\* the mutant of WorkerRun: the return after error.emit is missing
WorkerRunNoReturn(res) ==
    IF res.tag = "raise" THEN <<"error", "finished">> ELSE <<"finished">>

\* Worker.run: the signals emitted for the outcome of fn
WorkerRun(res) ==
    IF res.tag = "raise" THEN <<"error">> ELSE <<"finished">>

\* the Worker has run: its result and the signals queued to the UI thread
Emitted(t, res) ==
    [t EXCEPT !.st = "emitted", !.client = 0, !.res = res, !.pending = WorkerRun(res)]

Put(tk, t) == tk (+) SetToBag({t})
Take(tk, t) == tk (-) SetToBag({t})
Room == BagCardinality(tasks) < MaxTasks

---------------------------------------------------------------------------
(* JellyfinClient: each operation as a function of the HTTP response.      *)

Http(code, d) == [status |-> code, body |-> d]

\* the scratch of the client operations before an operation is picked
CallIdle == [pc |-> "idle", op |-> "quickconnect_enabled", r |-> Http(200, NoData),
             out |-> NoResult, sig |-> <<>>]

APP_NAME == "Botify"
APP_VERSION == "0.1.0"
\* platform.node()
DeviceName == "host"

\* the mutant of _auth_header: the Token part is appended whatever the token
auth_header_always_token(state) ==
    <<[k |-> "Client", v |-> APP_NAME],
      [k |-> "Device", v |-> DeviceName],
      [k |-> "DeviceId", v |-> state.device_id],
      [k |-> "Version", v |-> APP_VERSION],
      [k |-> "Token", v |-> state.token]>>

\* JellyfinClient._auth_header: the parts after "MediaBrowser ", in order
_auth_header(state) ==
    LET parts == <<[k |-> "Client", v |-> APP_NAME],
                   [k |-> "Device", v |-> DeviceName],
                   [k |-> "DeviceId", v |-> state.device_id],
                   [k |-> "Version", v |-> APP_VERSION]>>
    IN  IF truthy(state.token)
        THEN Append(parts, [k |-> "Token", v |-> state.token])
        ELSE parts

\* Response.raise_for_status() raises
raise_for_status(r) == r.status >= 400

\* quickconnect_initiate
quickconnect_initiate(r) ==
    IF raise_for_status(r) THEN Raised("HTTPError") ELSE Value(r.body)

\* quickconnect_state
quickconnect_state(r) ==
    IF r.status = 404
    THEN Value([NoData EXCEPT !.Error = "Unknown quick connect secret"])
    ELSE IF raise_for_status(r) THEN Raised("HTTPError") ELSE Value(r.body)

\* authenticate_with_quickconnect, up to the check of the response
authenticate_with_quickconnect(r) ==
    IF raise_for_status(r) THEN Raised("HTTPError")
    ELSE IF ~truthy(r.body.AccessToken) \/ ~truthy(r.body.UserId)
         THEN Raised("RuntimeError")
    ELSE Value(r.body)

\* the mutant of token_assigned: the token is stored before the user id is looked at
token_assigned_early(state, r) ==
    IF raise_for_status(r) \/ ~truthy(r.body.AccessToken)
    THEN state
    ELSE [state EXCEPT !.token = r.body.AccessToken]

\* authenticate_with_quickconnect up to `self.state.token = token`: the
\* AuthState as the call leaves it there, or as the raise leaves it
token_assigned(state, r) ==
    IF authenticate_with_quickconnect(r).tag = "raise"
    THEN state
    ELSE [state EXCEPT !.token = r.body.AccessToken]

\* list_all_tracks
list_all_tracks(user_id, r) ==
    IF ~truthy(user_id) THEN Raised("RuntimeError")
    ELSE IF raise_for_status(r) THEN Raised("HTTPError") ELSE Value(r.body)

\* what the server may answer
InitiateResponses ==
    {Http(200, [NoData EXCEPT !.Secret = s]) : s \in Secrets} \cup {Http(500, NoData)}
PollResponses ==
    {Http(200, [NoData EXCEPT !.Authenticated = TRUE]),
     Http(200, NoData),
     Http(200, [NoData EXCEPT !.Error = "x"]),
     Http(404, NoData),
     Http(500, NoData)}
ExchangeResponses ==
    {Http(200, [NoData EXCEPT !.AccessToken = tok, !.UserId = u]) :
        tok \in Tokens \cup {None}, u \in Users \cup {None}} \cup {Http(500, NoData)}
TracksResponses ==
    {Http(200, [NoData EXCEPT !.Items = l]) : l \in TrackLists} \cup {Http(500, NoData)}

---------------------------------------------------------------------------
(* MainWindow: construction, track loading.                                *)

NoSettings == [server |-> NoServer, token |-> None, user_id |-> None,
               device_id |-> None]

\* the condition of "Restore session if possible"
Restorable(st) == truthy(st.token) /\ truthy(st.user_id) /\ truthyText(st.server)

\* the mutant of RestoredClient: the user id is not restored
RestoredClientNoUser(st, dev) ==
    [JellyfinClient(st.server, dev) EXCEPT !.token = st.token]

\* the client restored from the persisted session
RestoredClient(st, dev) ==
    [JellyfinClient(st.server, dev) EXCEPT !.token = st.token, !.user_id = st.user_id]

\* load_tracks: whether it gets past the "Login required" return
HasSession(mc, hp) == mc # 0 /\ truthy(hp[mc].token)

\* load_tracks: the stack index it leaves
LoadStack(mc, hp, stack) == IF HasSession(mc, hp) THEN stack ELSE 0

\* load_tracks: the pool after it (self._run(self.client.list_all_tracks, ok))
LoadTasks(mc, hp, tk) == IF HasSession(mc, hp) THEN Put(tk, Task("tracks", mc)) ELSE tk

\* MainWindow.__init__ on the settings st, uuid4() returning fresh
\* the mutant of Constructed: the persisted device id is not read back
ConstructedFresh(st, fresh) ==
    LET st2 == [st EXCEPT !.device_id = fresh]
    IN  [settings |-> st2,
         device_id |-> fresh,
         heap |-> [r \in Refs |-> IF r = 1 /\ Restorable(st2)
                                   THEN RestoredClient(st2, fresh) ELSE Free],
         mainClient |-> IF Restorable(st2) THEN 1 ELSE 0,
         mainStack |-> IF Restorable(st2) THEN 1 ELSE 0,
         pendingLoad |-> Restorable(st2)]

\* MainWindow.__init__ on the persisted settings st, uuid4() giving fresh
Constructed(st, fresh) ==
    LET dev == IF truthy(st.device_id) THEN st.device_id ELSE fresh
        st2 == [st EXCEPT !.device_id = dev]
    IN  [settings |-> st2,
         device_id |-> dev,
         heap |-> [r \in Refs |-> IF r = 1 /\ Restorable(st2)
                                   THEN RestoredClient(st2, dev) ELSE Free],
         mainClient |-> IF Restorable(st2) THEN 1 ELSE 0,
         mainStack |-> IF Restorable(st2) THEN 1 ELSE 0,
         pendingLoad |-> Restorable(st2)]

Init ==
    /\ \E fresh \in {"d1"} :
        LET c == Constructed(NoSettings, fresh)
        IN  /\ settings = c.settings
            /\ device_id = c.device_id
            /\ heap = c.heap
            /\ mainClient = c.mainClient
            /\ mainStack = c.mainStack
            /\ pendingLoad = c.pendingLoad
    /\ catalog = NoData.Items
    /\ widget \in Widgets
    /\ obClient = 0
    /\ obPage = 0
    /\ secret = None
    /\ timerActive = FALSE
    /\ tasks = EmptyBag
    /\ session = 0
    /\ norm = NormIdle
    /\ bar = BarInit
    /\ fmt = FmtIdle
    /\ look = LookIdle
    /\ call = CallIdle

\* the process exits and is started again: main() on the persisted settings
Restart ==
    /\ \E fresh \in DeviceIds :
        LET c == Constructed(settings, fresh)
        IN  /\ settings' = c.settings
            /\ device_id' = c.device_id
            /\ heap' = c.heap
            /\ mainClient' = c.mainClient
            /\ mainStack' = c.mainStack
            /\ pendingLoad' = c.pendingLoad
    /\ catalog' = NoData.Items
    /\ obClient' = 0
    /\ obPage' = 0
    /\ secret' = None
    /\ timerActive' = FALSE
    /\ tasks' = EmptyBag
    /\ session' = 0
    /\ UNCHANGED <<widget, aux>>

\* the user can act on the main window: the start-up singleShot has fired
Idle == ~pendingLoad

\* QTimer.singleShot(0, self.load_tracks) fires
LoadTracksShot ==
    /\ pendingLoad
    /\ Room
    /\ pendingLoad' = FALSE
    /\ mainStack' = LoadStack(mainClient, heap, mainStack)
    /\ tasks' = LoadTasks(mainClient, heap, tasks)
    /\ UNCHANGED <<settings, device_id, catalog, pairVars, objVars, aux>>

\* the toolbar's Refresh action: load_tracks
Refresh ==
    /\ Idle
    /\ Room
    /\ mainStack' = LoadStack(mainClient, heap, mainStack)
    /\ tasks' = LoadTasks(mainClient, heap, tasks)
    /\ UNCHANGED <<settings, device_id, pendingLoad, catalog, pairVars, objVars, aux>>

---------------------------------------------------------------------------
(* The pairing widget: user actions and the poll timer.                    *)

\* initiate_quickconnect: the pool after self._run(quickconnect_initiate, ok)
initiate_quickconnect(tk) == Put(tk, Task("initiate", 0))

\* start_quickconnect with `text` in the server field.  For the
\* QuickConnectWidget this is its construction over the host's client, which
\* ends in initiate_quickconnect().
start_quickconnect(text) ==
    LET server == strip(text)
        r == NewRef
        client == JellyfinClient(server, device_id)
    IN  /\ Idle
        /\ mainStack = 0
        /\ obPage = 0
        /\ widget = "QuickConnectWidget" => obClient = 0
        /\ Room
        /\ server # <<>>
        /\ settings' = [settings EXCEPT !.server = client.server]
        /\ obPage' = 1
        /\ Commit([heap EXCEPT ![r] = client], mainClient, r,
                  initiate_quickconnect(tasks))
        /\ UNCHANGED <<device_id, mainStack, pendingLoad, catalog, widget, secret,
                       timerActive, session, aux>>

\* the "Back" button of the quick connect page
Back ==
    /\ Idle
    /\ mainStack = 0
    /\ widget = "OnboardingWidget"
    /\ obPage = 1
    /\ obPage' = 0
    /\ UNCHANGED <<winVars, widget, secret, timerActive, session, objVars,
                   tasks, aux>>

\* the "Get New Code" button: initiate_quickconnect
GetNewCode ==
    /\ Idle
    /\ mainStack = 0
    /\ widget = "OnboardingWidget"
    /\ obPage = 1
    /\ obClient # 0
    /\ Room
    /\ tasks' = initiate_quickconnect(tasks)
    /\ UNCHANGED <<winVars, widget, obPage, secret, timerActive, session, objVars,
                   aux>>

\* poll_quickconnect_state past its guard: self._run(quickconnect_state, ok)
poll_quickconnect_state(tk) == Put(tk, Task("poll", 0))

\* poll_timer.timeout: every interval while the timer is active
Tick ==
    /\ timerActive
    /\ obClient # 0 /\ truthy(secret)
    /\ Room
    /\ tasks' = poll_quickconnect_state(tasks)
    /\ UNCHANGED <<winVars, pairVars, objVars, aux>>

---------------------------------------------------------------------------
(* The units of work, on a worker thread.                                  *)

Queued(kind) == {t \in BagToSet(tasks) : t.kind = kind /\ t.st = "queued"}

\* lambda: self.client.quickconnect_initiate()
\* lambda: self.client.quickconnect_initiate(), the server answering with one
\* of `responses`
quickconnect_initiate_run(t, responses) ==
    /\ t \in Queued("initiate")
    /\ \E r \in responses :
        tasks' = Put(Take(tasks, t),
                     Emitted([t EXCEPT !.auth = _auth_header(heap[obClient]),
                                       !.sent = 1],
                             quickconnect_initiate(r)))
    /\ UNCHANGED <<winVars, pairVars, objVars, aux>>

\* the Worker of initiate_quickconnect
RunInitiate(t) == quickconnect_initiate_run(t, InitiateResponses)

\* lambda: self.client.quickconnect_state(self.secret), the server answering
\* with one of `responses`
quickconnect_state_run(t, responses) ==
    /\ t \in Queued("poll")
    /\ \E r \in responses :
        tasks' = Put(Take(tasks, t),
                     Emitted([t EXCEPT !.secret = secret,
                                       !.auth = _auth_header(heap[obClient]),
                                       !.sent = 1],
                             quickconnect_state(r)))
    /\ UNCHANGED <<winVars, pairVars, objVars, aux>>

\* the Worker of poll_quickconnect_state
RunPoll(t) == quickconnect_state_run(t, PollResponses)

\* lambda: self.client.authenticate_with_quickconnect(self.secret), up to and
\* including `self.state.token = token`, the server answering with one of
\* `responses`
authenticate_with_quickconnect_run(t, responses) ==
    /\ t \in Queued("exchange")
    /\ \E r \in responses :
        LET res == authenticate_with_quickconnect(r)
            bound == [t EXCEPT !.client = obClient, !.secret = secret,
                               !.auth = _auth_header(heap[obClient]), !.sent = 1]
        IN  /\ tasks' = IF res.tag = "raise"
                         THEN Put(Take(tasks, t), Emitted(bound, res))
                         ELSE Put(Take(tasks, t),
                                  [bound EXCEPT !.st = "midwrite", !.res = res])
            /\ heap' = [heap EXCEPT ![obClient] = token_assigned(heap[obClient], r)]
    /\ UNCHANGED <<winVars, pairVars, mainClient, obClient, aux>>

\* the Worker of the exchange
RunExchange(t) == authenticate_with_quickconnect_run(t, ExchangeResponses)

\* authenticate_with_quickconnect: `self.state.user_id = user_id; return data`
RunExchangeWrite(t) ==
    /\ t \in BagToSet(tasks)
    /\ t.kind = "exchange" /\ t.st = "midwrite"
    /\ Commit([heap EXCEPT ![t.client].user_id = t.res.data.UserId],
              mainClient, obClient, Put(Take(tasks, t), Emitted(t, t.res)))
    /\ UNCHANGED <<winVars, pairVars, aux>>

\* self.client.list_all_tracks, bound to the client when dispatched, the
\* server answering with one of `responses`
list_all_tracks_run(t, responses) ==
    /\ t \in Queued("tracks")
    /\ \E r \in responses :
        LET state == heap[t.client]
            sent == IF truthy(state.user_id) THEN _auth_header(state) ELSE <<>>
        IN  Commit(heap, mainClient, obClient,
                   Put(Take(tasks, t),
                       Emitted([t EXCEPT !.auth = sent,
                                         !.sent = IF sent = <<>> THEN 0 ELSE 1],
                               list_all_tracks(state.user_id, r))))
    /\ UNCHANGED <<winVars, pairVars, aux>>

\* the Worker of a track listing
RunTracks(t) == list_all_tracks_run(t, TracksResponses)

---------------------------------------------------------------------------
(* The callbacks, on the UI thread.  `base` is the pool without the        *)
(* Worker whose signal is being delivered.                                 *)

Bump(n) == IF n < 2 THEN n + 1 ELSE 2

\* initiate_quickconnect.ok(data), the same in both widgets
initiate_ok(data, base) ==
    /\ secret' = data.Secret
    /\ timerActive' = TRUE
    /\ session' = 0
    /\ tasks' = base
    /\ UNCHANGED <<winVars, widget, obPage, objVars>>

\* the branch `if auth:` of poll_quickconnect_state.ok, the same in both
\* widgets.  `polled` is the secret the poll was sent with: the Worker of the
\* exchange is a closure over self and holds no secret of its own, the field
\* records, until the Worker runs, which secret the server has authorised
poll_authenticated(polled, base) ==
    /\ timerActive' = FALSE
    /\ tasks' = Put(base, [Task("exchange", 0) EXCEPT !.secret = polled])
    /\ session' = Bump(session)
    /\ UNCHANGED <<winVars, widget, obPage, secret, objVars>>

\* the callback changes no state (at most it sets a label or shows a message
\* box)
no_effect(base) ==
    /\ tasks' = base
    /\ UNCHANGED <<winVars, pairVars, objVars>>

\* the branch `if error:` of QuickConnectWidget.poll_quickconnect_state.ok
poll_rearm(base) ==
    /\ timerActive' = FALSE
    /\ tasks' = initiate_quickconnect(base)
    /\ UNCHANGED <<winVars, widget, obPage, secret, session, objVars>>

\* the mutant of OnboardingWidget_poll_ok: a pending poll stops the timer
OnboardingWidget_poll_ok_stops(data, polled, base) ==
    IF data.Authenticated THEN poll_authenticated(polled, base)
    ELSE /\ timerActive' = FALSE
         /\ tasks' = base
         /\ UNCHANGED <<winVars, widget, obPage, secret, session, objVars>>

\* OnboardingWidget.poll_quickconnect_state.ok(data)
OnboardingWidget_poll_ok(data, polled, base) ==
    IF data.Authenticated THEN poll_authenticated(polled, base) ELSE no_effect(base)

\* QuickConnectWidget.poll_quickconnect_state.ok(data)
QuickConnectWidget_poll_ok(data, polled, base) ==
    IF data.Authenticated THEN poll_authenticated(polled, base)
    ELSE IF truthy(data.Error) THEN poll_rearm(base)
    ELSE no_effect(base)

\* _after_auth(data) and, through the authenticated signal, _on_authenticated
_after_auth(base) ==
    LET auth == heap[obClient]
    IN  /\ settings' = [settings EXCEPT !.token = auth.token,
                                        !.user_id = auth.user_id,
                                        !.device_id = auth.device_id]
        /\ mainStack' = LoadStack(obClient, heap, 1)
        /\ Commit(heap, obClient, obClient, LoadTasks(obClient, heap, base))
        /\ UNCHANGED <<device_id, pendingLoad, catalog, pairVars>>

\* the mutant of tracks_ok: the rows of the response are added to the catalog
tracks_ok_appends(data, base) ==
    /\ catalog' = catalog \o data.Items
    /\ tasks' = base
    /\ UNCHANGED <<settings, device_id, mainStack, pendingLoad, pairVars, objVars>>

\* load_tracks.ok(items)
tracks_ok(data, base) ==
    /\ catalog' = data.Items
    /\ tasks' = base
    /\ UNCHANGED <<settings, device_id, mainStack, pendingLoad, pairVars, objVars>>

\* ok of set_track and of set_cover_async: the pixmap goes into the label
image_ok(base) == no_effect(base)

\* the slot connected to signals.finished, by the kind of the Worker
on_ok(t, base) ==
    CASE t.kind = "initiate" -> initiate_ok(t.res.data, base)
      [] t.kind = "poll" /\ widget = "OnboardingWidget" ->
             OnboardingWidget_poll_ok(t.res.data, t.secret, base)
      [] t.kind = "poll" /\ widget = "QuickConnectWidget" ->
             QuickConnectWidget_poll_ok(t.res.data, t.secret, base)
      [] t.kind = "exchange" -> _after_auth(base)
      [] t.kind = "tracks" -> tracks_ok(t.res.data, base)
      [] t.kind \in ImageKinds -> image_ok(base)

\* the slot connected to signals.error: QMessageBox.critical
on_err(base) == no_effect(base)

\* one queued signal of a Worker is delivered on the UI thread
Deliver(t) ==
    /\ t \in BagToSet(tasks)
    /\ t.pending # <<>>
    /\ LET sig == Head(t.pending)
           t2 == [t EXCEPT !.pending = Tail(@),
                           !.ok = IF sig = "finished" THEN @ + 1 ELSE @,
                           !.err = IF sig = "error" THEN @ + 1 ELSE @]
           base == IF t2.pending = <<>> THEN Take(tasks, t)
                   ELSE Put(Take(tasks, t), t2)
       IN  IF sig = "finished" THEN on_ok(t, base) ELSE on_err(base)
    /\ UNCHANGED aux

---------------------------------------------------------------------------
(* The settings dialog.  SettingsDialog.__init__ reads the persisted       *)
(* server into its field and nothing else reads or writes the dialog until *)
(* a button closes it, so open_settings is one step: `text` is the content *)
(* of the server field when the button is pressed.                         *)

\* settings.value("server", ""): the persisted server, "" when the key is absent
ServerText(st) == IF st.server = NoServer THEN <<>> ELSE st.server

\* SettingsDialog.accept: the settings after it
SettingsDialog_accept(st, text) == [st EXCEPT !.server = strip(text)]

\* SettingsDialog.logout: the settings after it
SettingsDialog_logout(st, text) ==
    SettingsDialog_accept([st EXCEPT !.token = None, !.user_id = None], text)

\* what the server field may hold: the persisted server it was filled with, or
\* what the user typed over it
FieldTexts == InputTexts \cup {ServerText(settings)}

\* open_settings after dlg.exec() returned Accepted, the settings being st
open_settings(st) ==
    LET r == NewRef
        fresh == JellyfinClient(st.server, device_id)
        both == truthy(st.token) /\ truthy(st.user_id)
        hp == [heap EXCEPT ![r] = IF both
                                  THEN [fresh EXCEPT !.token = st.token,
                                                     !.user_id = st.user_id]
                                  ELSE fresh]
    IN  /\ settings' = st
        /\ IF truthyText(st.server)
           THEN /\ mainStack' = IF both THEN LoadStack(r, hp, mainStack) ELSE 0
                /\ Commit(hp, r, obClient,
                          IF both THEN LoadTasks(r, hp, tasks) ELSE tasks)
           ELSE UNCHANGED <<mainStack, objVars, tasks>>
        /\ UNCHANGED <<device_id, pendingLoad, catalog, pairVars, aux>>

\* the dialog is opened and closed with its Save button
Save(text) ==
    /\ Idle
    /\ Room
    /\ open_settings(SettingsDialog_accept(settings, text))

\* the dialog is opened and closed with its "Log out" button
Logout(text) ==
    /\ Idle
    /\ Room
    /\ open_settings(SettingsDialog_logout(settings, text))

---------------------------------------------------------------------------
(* The cover images: the preview panel and the playback bar fetch them.    *)

\* the mutant of set_cover_async: the image is fetched where the click is handled
set_cover_sync(tk, url) ==
    IF url THEN Put(tk, Emitted([Task("cover", 0) EXCEPT !.sent = 1], Value(NoData)))
    ELSE tk

\* PlaybackBar.set_cover_async: the pool after it, url telling whether one is given
set_cover_async(tk, url) == IF url THEN Put(tk, Task("cover", 0)) ELSE tk

\* TrackPreview.set_track: the pool after it
set_track(tk, image_url) == IF image_url THEN Put(tk, Task("preview", 0)) ELSE tk

\* a row of the table is clicked: _preview_selected
PreviewClick(row) ==
    /\ Room
    /\ row \in 1 .. Len(catalog)
    /\ tasks' = set_track(tasks, mainClient # 0 /\ truthy(catalog[row]))
    /\ UNCHANGED <<winVars, pairVars, objVars, aux>>

\* a row of the table is double-clicked: _play_selected.  The player streams
\* the track by itself; the cover goes through set_cover_async
PlayDoubleClick(row) ==
    /\ Room
    /\ row \in 1 .. Len(catalog)
    /\ tasks' = IF mainClient # 0 /\ truthy(catalog[row])
                THEN set_cover_async(tasks, TRUE)
                ELSE tasks
    /\ UNCHANGED <<winVars, pairVars, objVars, aux>>

\* _fetch_image_bytes, and fetch of set_cover_async
_fetch_image_bytes(r) == IF raise_for_status(r) THEN Raised("HTTPError") ELSE Value(NoData)

ImageResponses == {Http(200, NoData), Http(404, NoData)}

\* the Worker of an image fetch runs: requests.get(url, timeout=10)
RunFetch(t) ==
    /\ t \in Queued("preview") \cup Queued("cover")
    /\ \E r \in ImageResponses :
        tasks' = Put(Take(tasks, t),
                     Emitted([t EXCEPT !.sent = 1], _fetch_image_bytes(r)))
    /\ UNCHANGED <<winVars, pairVars, objVars, aux>>

---------------------------------------------------------------------------
(* The client operations on the statuses a server can answer with.  The    *)
(* bodies are JSON documents; Worker.run turns what the operation does     *)
(* into the signal it emits.                                               *)

\* Response.ok: raise_for_status() does not raise
ok(r) == ~raise_for_status(r)

\* quickconnect_enabled: bool(r.json()), the flag itself is not kept
quickconnect_enabled(r) ==
    IF raise_for_status(r) THEN Raised("HTTPError") ELSE Value(NoData)

\* _call_endpoint: the dict {"error": "Server not found"} is returned, the
\* raise_for_status() after it is never reached with a status it raises for
_call_endpoint(r) ==
    IF ~ok(r) THEN Value([NoData EXCEPT !.Error = "Server not found"])
    ELSE IF raise_for_status(r) THEN Raised("HTTPError") ELSE Value(r.body)

Operations == {"quickconnect_enabled", "quickconnect_initiate", "quickconnect_state",
               "authenticate_with_quickconnect", "list_all_tracks",
               "_fetch_image_bytes", "_call_endpoint"}

\* the statuses of the answers: success, a redirection that is not followed,
\* client errors (404 among them) and a server error
Statuses == {200, 300, 401, 404, 500}

HttpResponses ==
    {Http(code, r.body) :
        code \in Statuses,
        r \in InitiateResponses \cup PollResponses \cup ExchangeResponses
                  \cup TracksResponses}

\* the operation `op` of a client that has a user id, answered with r
perform(op, r) ==
    CASE op = "quickconnect_enabled" -> quickconnect_enabled(r)
      [] op = "quickconnect_initiate" -> quickconnect_initiate(r)
      [] op = "quickconnect_state" -> quickconnect_state(r)
      [] op = "authenticate_with_quickconnect" -> authenticate_with_quickconnect(r)
      [] op = "list_all_tracks" -> list_all_tracks(CHOOSE u \in Users : TRUE, r)
      [] op = "_fetch_image_bytes" -> _fetch_image_bytes(r)
      [] op = "_call_endpoint" -> _call_endpoint(r)

CallPick ==
    /\ call.pc = "idle"
    /\ \E op \in Operations, r \in HttpResponses :
        call' = [CallIdle EXCEPT !.pc = "asked", !.op = op, !.r = r]
    /\ UNCHANGED <<appVars, norm, bar, fmt, look>>

\* Worker.run around the operation: its result and the signal emitted for it
CallRun ==
    /\ call.pc = "asked"
    /\ LET res == perform(call.op, call.r)
       IN  call' = [call EXCEPT !.pc = "done", !.out = res, !.sig = WorkerRun(res)]
    /\ UNCHANGED <<appVars, norm, bar, fmt, look>>

NextHttp ==
    \/ CallPick
    \/ CallRun

---------------------------------------------------------------------------
(* The specifications.                                                     *)

Next ==
    \/ Restart
    \/ LoadTracksShot
    \/ Refresh
    \/ \E text \in InputTexts : start_quickconnect(text)
    \/ Back
    \/ GetNewCode
    \/ Tick
    \/ \E t \in BagToSet(tasks) : RunInitiate(t)
    \/ \E t \in BagToSet(tasks) : RunPoll(t)
    \/ \E t \in BagToSet(tasks) : RunExchange(t)
    \/ \E t \in BagToSet(tasks) : RunExchangeWrite(t)
    \/ \E t \in BagToSet(tasks) : RunTracks(t)
    \/ \E t \in BagToSet(tasks) : Deliver(t)
    \/ \E text \in FieldTexts : Save(text)
    \/ \E text \in FieldTexts : Logout(text)

Spec == Init /\ [][Next]_vars

\* the normalizeServer round trip on every raw string of RawServers
NextClean ==
    \/ NormPick
    \/ NormOnce
    \/ NormTwice

InitClean == Init /\ widget = "OnboardingWidget"

SpecClean == InitClean /\ [][NextClean]_vars

\* server entry alone, on a wider set of texts typed into the server fields of
\* the onboarding page and of the settings dialog
EntryTexts ==
    {<<>>, <<"a">>, <<"a", "/">>, <<"/">>, <<"a", " ", "/">>, <<" ", "a">>,
     HTTPS \o <<"a">>}

NextEntry ==
    \/ Restart
    \/ \E text \in EntryTexts : start_quickconnect(text)
    \/ Back
    \/ \E t \in BagToSet(tasks) : RunInitiate(t)
    \/ \E t \in BagToSet(tasks) : Deliver(t)
    \/ \E text \in EntryTexts : Save(text)

SpecEntry == Init /\ [][NextEntry]_vars

\* one run of the program from its first start: pairing, loading, the
\* settings dialog, and the clicks on the loaded table
NextMedia ==
    \/ Refresh
    \/ \E text \in InputTexts : start_quickconnect(text)
    \/ GetNewCode
    \/ Tick
    \/ \E t \in BagToSet(tasks) : RunInitiate(t)
    \/ \E t \in BagToSet(tasks) : RunPoll(t)
    \/ \E t \in BagToSet(tasks) : RunExchange(t)
    \/ \E t \in BagToSet(tasks) : RunExchangeWrite(t)
    \/ \E t \in BagToSet(tasks) : RunTracks(t)
    \/ \E t \in BagToSet(tasks) : Deliver(t)
    \/ \E text \in FieldTexts : Save(text)
    \/ \E text \in FieldTexts : Logout(text)
    \/ \E row \in 1 .. MaxRows : PreviewClick(row)
    \/ \E row \in 1 .. MaxRows : PlayDoubleClick(row)
    \/ \E t \in BagToSet(tasks) : RunFetch(t)

SpecMedia == Init /\ [][NextMedia]_vars

\* the libraries of the specification with several of them: responses that
\* differ in their rows and in the number of rows, and an empty library
Libraries == TrackLists \cup {<<"i3">>, <<>>}
LibraryResponses ==
    {Http(200, [NoData EXCEPT !.Items = l]) : l \in Libraries} \cup {Http(500, NoData)}

\* one pairing and then track listings of a server whose library changes
\* between the requests
NextTracks ==
    \/ Refresh
    \/ \E text \in InputTexts : start_quickconnect(text)
    \/ Tick
    \/ \E t \in BagToSet(tasks) : RunInitiate(t)
    \/ \E t \in BagToSet(tasks) : RunPoll(t)
    \/ \E t \in BagToSet(tasks) : RunExchange(t)
    \/ \E t \in BagToSet(tasks) : RunExchangeWrite(t)
    \/ \E t \in BagToSet(tasks) : list_all_tracks_run(t, LibraryResponses)
    \/ \E t \in BagToSet(tasks) : Deliver(t)

SpecTracks == Init /\ [][NextTracks]_vars

\* a server that issues a new secret with every code
FreshSecrets == Secrets \cup {"s2"}
FreshSecretResponses == {Http(200, [NoData EXCEPT !.Secret = s]) : s \in FreshSecrets}

\* the pairing page with its "Get New Code" button, the codes carrying
\* different secrets
NextSecrets ==
    \/ \E text \in InputTexts : start_quickconnect(text)
    \/ GetNewCode
    \/ Tick
    \/ \E t \in BagToSet(tasks) : quickconnect_initiate_run(t, FreshSecretResponses)
    \/ \E t \in BagToSet(tasks) : RunPoll(t)
    \/ \E t \in BagToSet(tasks) : RunExchange(t)
    \/ \E t \in BagToSet(tasks) : RunExchangeWrite(t)
    \/ \E t \in BagToSet(tasks) : Deliver(t)

SpecSecrets == Init /\ [][NextSecrets]_vars

\* the server of the pairing and another server typed into the settings
Issuer == JellyfinClient(<<"a", "/">>, None).server
MovedTexts == {<<"b">>}

\* pairing with the server of InputTexts; the settings dialog is then saved
\* with that server or with another one, and the program restarted
NextServers ==
    \/ Restart
    \/ LoadTracksShot
    \/ \E text \in InputTexts : start_quickconnect(text)
    \/ Tick
    \/ \E t \in BagToSet(tasks) : RunInitiate(t)
    \/ \E t \in BagToSet(tasks) : RunPoll(t)
    \/ \E t \in BagToSet(tasks) : RunExchange(t)
    \/ \E t \in BagToSet(tasks) : RunExchangeWrite(t)
    \/ \E t \in BagToSet(tasks) : RunTracks(t)
    \/ \E t \in BagToSet(tasks) : Deliver(t)
    \/ \E text \in FieldTexts \cup MovedTexts : Save(text)

SpecServers == Init /\ [][NextServers]_vars

\* a server on which every request succeeds
Successes(responses) == {r \in responses : ok(r)}
\* the poll answered Authenticated = true
Approvals == {r \in Successes(PollResponses) : r.body.Authenticated}
\* the exchange answered with a token and a user id
Grants ==
    {r \in Successes(ExchangeResponses) :
        truthy(r.body.AccessToken) /\ truthy(r.body.UserId)}

\* the server approves the code
Approve == \E t \in BagToSet(tasks) : quickconnect_state_run(t, Approvals)

\* the steps of the pool's threads and the delivery of their signals
Scheduled ==
    \/ \E t \in BagToSet(tasks) :
          quickconnect_initiate_run(t, Successes(InitiateResponses))
    \/ \E t \in BagToSet(tasks) :
          quickconnect_state_run(t, Successes(PollResponses))
    \/ \E t \in BagToSet(tasks) : authenticate_with_quickconnect_run(t, Grants)
    \/ \E t \in BagToSet(tasks) : RunExchangeWrite(t)
    \/ \E t \in BagToSet(tasks) : list_all_tracks_run(t, Successes(TracksResponses))
    \/ \E t \in BagToSet(tasks) : Deliver(t)

\* pairing on a server on which every request succeeds; the user may go back
\* to the server page and enter the server again
NextLive ==
    \/ \E text \in InputTexts : start_quickconnect(text)
    \/ Back
    \/ Tick
    \/ Scheduled

\* the event loop delivers every timeout and every queued signal, the pool
\* runs every Worker it was handed, and the code is approved at some point
\* while it is being polled
SpecLive ==
    /\ Init
    /\ [][NextLive]_vars
    /\ WF_vars(Tick)
    /\ WF_vars(Scheduled)
    /\ SF_vars(Approve)

\* the playback bar alone: the user's drag against the engine's callbacks
SpecBar == Init /\ [][NextBar]_vars

\* the Duration text of every item of FmtItems
SpecFmt == Init /\ [][NextFmt]_vars

\* every row lookup on every list of RowLists
SpecLook == Init /\ [][NextLook]_vars

\* every client operation on every response of HttpResponses
SpecHttp == Init /\ [][NextHttp]_vars

---------------------------------------------------------------------------
(* The phases of the session state machine and what is outstanding.        *)

\* the main window's client holds a session: token and user id both set
Authenticated ==
    /\ mainClient # 0
    /\ truthy(heap[mainClient].token)
    /\ truthy(heap[mainClient].user_id)

\* a pairing widget holds a client and the main window holds no session
Pairing == ~Authenticated /\ obClient # 0

\* the Workers of one kind handed to the pool whose callback is not yet delivered
Outstanding(kind) ==
    LET S == {t \in BagToSet(tasks) : t.kind = kind}
    IN  IF S = {} THEN 0 ELSE BagCardinality([t \in S |-> tasks[t]])

---------------------------------------------------------------------------
(* The poll timer and the exchange.                                        *)

\* C1: during pairing at most one quickConnectPoll is outstanding at any time:
\* no poll is dispatched while an earlier poll's Worker is still running or its
\* callback is not yet delivered.
C1_OnePollOutstanding == Outstanding("poll") <= 1

\* C2: within one pairing session (one stored secret) the exchange is
\* dispatched at most once, whatever the number of polls that report
\* Authenticated = true.
C2_ExchangeOnce == session <= 1

---------------------------------------------------------------------------
(* The poll callback.                                                      *)

\* the Worker t is a poll whose finished signal is queued, its value being
\* Authenticated = false
NotAuthenticatedPoll(t) ==
    /\ t.kind = "poll"
    /\ t.pending # <<>> /\ Head(t.pending) = "finished"
    /\ ~t.res.data.Authenticated

\* ... with no Error
PendingPoll(t) == NotAuthenticatedPoll(t) /\ ~truthy(t.res.data.Error)

\* ... with a non-empty Error
FailedPoll(t) == NotAuthenticatedPoll(t) /\ truthy(t.res.data.Error)

\* C3: when a poll callback delivers Authenticated = false with no Error, the
\* machine stays in Pairing, the stored secret is unchanged, no initiate and no
\* exchange is dispatched, and the poll timer is left running.
C3_PendingPollKeepsPairing ==
    [][\A t \in BagToSet(tasks) :
          (PendingPoll(t) /\ Deliver(t)) =>
              /\ Pairing => Pairing'
              /\ UNCHANGED <<heap, mainClient, obClient, mainStack, settings>>
              /\ secret' = secret
              /\ Outstanding("initiate")' = Outstanding("initiate")
              /\ Outstanding("exchange")' = Outstanding("exchange")
              /\ Outstanding("poll")' = Outstanding("poll") - 1
              /\ timerActive' = timerActive]_vars

\* a poll of the running timer has answered Authenticated = false with no
\* Error and its callback is about to be delivered
C3_Witness ==
    /\ Pairing /\ timerActive /\ truthy(secret)
    /\ \E t \in BagToSet(tasks) : PendingPoll(t)

\* C4: when a poll callback delivers Authenticated = false with a non-empty
\* Error, a new quickConnectInitiate is dispatched and the machine stays in
\* Pairing, in every pairing widget.
C4_FailedPollRearms ==
    [][\A t \in BagToSet(tasks) :
          (FailedPoll(t) /\ Deliver(t)) =>
              /\ Pairing => Pairing'
              /\ Outstanding("initiate")' = Outstanding("initiate") + 1]_vars

---------------------------------------------------------------------------
(* The token and the user id.                                              *)

Paired(token, user_id) == truthy(token) <=> truthy(user_id)

\* C5: in every reachable state every AuthState has token and user id both
\* present or both absent, and so has the persisted pair (token, user_id).
C5_TokenAndUserTogether ==
    /\ \A r \in Refs : Paired(heap[r].token, heap[r].user_id)
    /\ Paired(settings.token, settings.user_id)

---------------------------------------------------------------------------
(* Logout.                                                                 *)

\* C6: logout removes the persisted token and user_id and leaves the persisted
\* server and device_id as they were, whatever text is in the dialog's server
\* field when "Log out" is pressed.
C6_LogoutKeepsServer ==
    [][\A text \in FieldTexts :
          Logout(text) =>
              /\ settings'.token = None
              /\ settings'.user_id = None
              /\ ServerText(settings') = ServerText(settings)
              /\ settings'.device_id = settings.device_id]_vars

\* C7: after a logout from Authenticated the main window's client has no token
\* and no user id, the onboarding view is shown and no track listing is
\* possible, for every persisted server value.
C7_LogoutAnonymous ==
    [][\A text \in FieldTexts :
          (Authenticated /\ Logout(text)) =>
              /\ ~HasSession(mainClient', heap')
              /\ mainClient' # 0 => ~truthy(heap'[mainClient'].user_id)
              /\ mainStack' = 0
              /\ LoadTasks(mainClient', heap', EmptyBag) = EmptyBag]_vars

---------------------------------------------------------------------------
(* Process start.                                                          *)

\* what a start on the persisted settings leaves, `server` being the server of
\* the restored client
StartedWith(server) ==
    IF Restorable(settings)
    THEN /\ Authenticated'
         /\ heap'[mainClient'].server = server
         /\ heap'[mainClient'].token = settings.token
         /\ heap'[mainClient'].user_id = settings.user_id
         /\ mainStack' = 1
         /\ pendingLoad'
         /\ tasks' = EmptyBag /\ ~timerActive' /\ obClient' = 0
    ELSE /\ mainClient' = 0 /\ obClient' = 0
         /\ mainStack' = 0
         /\ ~pendingLoad'
         /\ tasks' = EmptyBag

\* C8 as stated: on process start, if server, token and user_id are all
\* persisted the machine starts Authenticated with exactly those values,
\* schedules a track listing and performs no initiate, poll or exchange;
\* otherwise it starts Anonymous and no track listing is dispatched.
C8_RestoreExact == [][Restart => StartedWith(settings.server)]_vars

\* C8 amended: the restored client holds exactly the persisted token and
\* user_id and the normalized form of the persisted server.
C8_RestoreNormalized == [][Restart => StartedWith(_clean_server(settings.server))]_vars

\* the process has just started Authenticated on a persisted server that is
\* not in normalized form
C8_Witness ==
    /\ pendingLoad /\ Authenticated /\ mainStack = 1
    /\ heap[mainClient].token = settings.token
    /\ heap[mainClient].server # settings.server

---------------------------------------------------------------------------
(* The dispatcher.                                                         *)

\* C9: every dispatched task delivers exactly one callback: once its unit of
\* work has ended exactly one signal is queued or delivered, finished when it
\* returned a value and error when it raised, and its delivery is never
\* blocked by the other tasks; before that nothing is queued or delivered.
C9_OneCallback ==
    \A t \in BagToSet(tasks) :
        IF t.st = "emitted"
        THEN /\ Len(t.pending) + t.ok + t.err = 1
             /\ t.res.tag \in {"value", "raise"}
             /\ t.res.tag = "value" => t.pending = <<"finished">>
             /\ t.res.tag = "raise" => t.pending = <<"error">>
             /\ ENABLED Deliver(t)
        ELSE t.pending = <<>> /\ t.ok = 0 /\ t.err = 0

\* two tasks dispatched concurrently have both ended, one by raising and one by
\* returning a value, and their callbacks are queued
C9_Witness ==
    \E t, u \in BagToSet(tasks) :
        /\ t.st = "emitted" /\ t.res.tag = "raise" /\ t.pending = <<"error">>
        /\ u.st = "emitted" /\ u.res.tag = "value" /\ u.pending = <<"finished">>

---------------------------------------------------------------------------
(* normalizeServer.                                                        *)

\* C10: _clean_server is idempotent for every input string:
\* _clean_server(_clean_server(s)) = _clean_server(s).
C10_CleanIdempotent == norm.pc = "twice" => norm.twice = norm.once

---------------------------------------------------------------------------
(* The server of an AuthState.                                             *)

\* a server string in normalized form
Normalized(s) ==
    /\ startswith(s, HTTP) \/ startswith(s, HTTPS)
    /\ s[Len(s)] # "/"
    /\ Head(s) # " " /\ s[Len(s)] # " "

\* C11: in every reachable state the server of every AuthState is normalized
\* (scheme present, no trailing slash, no outer whitespace), and so is the
\* server persisted on entering Pairing, which is the server of the pairing
\* widget's AuthState.
C11_ServersNormalized ==
    \A r \in Refs : heap[r] # Free => Normalized(heap[r].server)

---------------------------------------------------------------------------
(* The authorization header.                                               *)

Keys(h) == [i \in 1 .. Len(h) |-> h[i].k]

\* the parts every header starts with, in order
FixedKeys == <<"Client", "Device", "DeviceId", "Version">>

\* C12: the header _auth_header builds for an AuthState has a Token part if
\* and only if the token is set, and then its value is the token; in both
\* cases it has Client, Device, DeviceId and Version in that order.  It holds
\* for the header of every AuthState and for every header sent.
C12_AuthHeader ==
    /\ \A r \in Refs :
          heap[r] # Free =>
              LET h == _auth_header(heap[r])
              IN  /\ Len(h) >= 4 /\ SubSeq(Keys(h), 1, 4) = FixedKeys
                  /\ (\E i \in 1 .. Len(h) : h[i].k = "Token") <=>
                         heap[r].token # None
                  /\ \A i \in 1 .. Len(h) :
                         h[i].k = "Token" => h[i].v = heap[r].token
    /\ \A t \in BagToSet(tasks) :
          t.auth # <<>> =>
              /\ Len(t.auth) >= 4 /\ SubSeq(Keys(t.auth), 1, 4) = FixedKeys
              /\ \A i \in 5 .. Len(t.auth) :
                     t.auth[i].k = "Token" /\ t.auth[i].v \in Tokens

\* one request has been sent with a Token part by a client that holds a token
\* and another without it
C12_Witness ==
    /\ \E r \in Refs : heap[r] # Free /\ heap[r].token # None
    /\ \E t, u \in BagToSet(tasks) :
          /\ Len(t.auth) = 5 /\ t.auth[5].k = "Token"
          /\ Len(u.auth) = 4


---------------------------------------------------------------------------
\* C13: while a seek drag is in progress no position callback of the engine
\* changes the seek slider's value or sets the player's position, and the
\* release sets the player's position exactly once since the press, to the
\* value the slider has at the release.
C13_DragOwnsSeek ==
    [][/\ (bar.seeking /\ \E p \in Positions : PositionChanged(p))
            => /\ bar'.value = bar.value
               /\ bar'.sets = bar.sets
               /\ bar'.target = bar.target
       /\ SeekReleased
            => /\ bar'.sets = 1
               /\ bar'.target = bar.value
               /\ bar'.position = bar.value]_vars

\* a drag to a position past the start was released after the engine had
\* reported a position during it
C13_Witness ==
    /\ ~bar.seeking
    /\ bar.heard
    /\ bar.sets = 1
    /\ bar.target > 0
    /\ bar.position = bar.target

\* C14: while a seek drag is in progress a duration callback of the engine
\* changes neither the range of the seek slider nor its value.
C14_DurationLeavesDrag ==
    [][(bar.seeking /\ \E d \in Durations : DurationChanged(d))
            => /\ bar'.max = bar.max
               /\ bar'.value = bar.value]_vars

---------------------------------------------------------------------------
\* the text M:SS of whole seconds: M = total div 60 unpadded, SS = total mod 60
\* in two digits, total = ticks div 10,000,000
Claimed(ticks) ==
    LET total == divmod(ticks, TicksPerSecond).q
        ms == divmod(total, 60)
    IN  str(ms.q) \o <<":">> \o two(ms.r)

\* C15: for every non-negative RunTimeTicks, 0 when the key is missing, the
\* Duration column reads M:SS of ticks div 10,000,000 whole seconds, and the
\* preview panel shows the same text for the same track.
C15_DurationText ==
    /\ fmt.pc \in {"column", "preview"} => fmt.column = Claimed(fmt.item.RunTimeTicks)
    /\ fmt.pc = "preview" => fmt.preview = fmt.column

---------------------------------------------------------------------------
\* C16: on every lookup path (itemId, data, preview click, play double-click)
\* a row with 0 <= row < rowCount gives the record at that position, and any
\* other row, negative or too large, gives "not found" without raising.
C16_LookupInRange ==
    look.pc = "done" =>
        look.out = IF 0 <= look.row /\ look.row < Len(look.rows)
                   THEN Found(look.rows[look.row + 1].Id)
                   ELSE NotFound

---------------------------------------------------------------------------
\* the exchange of Worker t got an answer without token or without user id
FailedExchange(t) == t.kind = "exchange" /\ t.res.exc = "RuntimeError"

\* what the exchange must leave alone: the clients' AuthStates, the persisted
\* settings, device id included, and what the authenticated event would touch
ExchangeFrame == <<heap, settings, device_id, mainClient, obClient, mainStack,
                   pendingLoad, catalog>>

\* C17: an exchange whose response omits the token or the user id fails and
\* mutates nothing: neither when the Worker runs it nor when its error callback
\* is delivered do the clients' token and user id or the persisted token,
\* user id and device id change, no authenticated event is handled, and the
\* window does not become Authenticated.
C17_FailedExchangeInert ==
    [][\A t \in BagToSet(tasks) :
          /\ (/\ RunExchange(t)
              /\ \E u \in BagToSet(tasks') :
                    FailedExchange(u) /\ CopiesIn(u, tasks') > CopiesIn(u, tasks))
                => UNCHANGED ExchangeFrame /\ (Authenticated' <=> Authenticated)
          /\ (FailedExchange(t) /\ Deliver(t))
                => /\ UNCHANGED ExchangeFrame
                   /\ Authenticated' <=> Authenticated
                   /\ t.pending = <<"error">>]_vars

\* during pairing an exchange has answered without user id: its error signal is
\* queued and the pairing client holds no token
C17_Witness ==
    /\ Pairing
    /\ ~truthy(heap[obClient].token)
    /\ \E t \in BagToSet(tasks) : FailedExchange(t) /\ t.pending = <<"error">>

---------------------------------------------------------------------------
\* the device id generated and persisted by the first start
FirstDeviceId == "d1"

\* the DeviceId part of an Authorization header
DeviceIdOf(h) == h[3].v

\* C18: once generated and persisted, the device id never changes, whatever
\* restarts, server entries, pairings, authentications, saves and logouts
\* happen: the persisted value stays the one of the first start, and so does
\* the DeviceId of every Authorization header sent.
C18_DeviceIdStable ==
    /\ settings.device_id = FirstDeviceId
    /\ device_id = FirstDeviceId
    /\ \A r \in Refs : heap[r] # Free => heap[r].device_id = FirstDeviceId
    /\ \A t \in BagToSet(tasks) : t.auth # <<>> => DeviceIdOf(t.auth) = FirstDeviceId

\* after a pairing, an authentication and a restart on the persisted session,
\* the restored client has sent the track listing request
C18_Witness ==
    /\ Authenticated
    /\ obClient = 0
    /\ secret = None
    /\ \E t \in BagToSet(tasks) :
          /\ t.kind = "tracks"
          /\ t.auth # <<>>
          /\ DeviceIdOf(t.auth) = settings.device_id

---------------------------------------------------------------------------
\* a Worker runs, or goes on running, its function on a pool thread
WorkerStep ==
    \E t \in BagToSet(tasks) :
        \/ RunInitiate(t)
        \/ RunPoll(t)
        \/ RunExchange(t)
        \/ RunExchangeWrite(t)
        \/ RunTracks(t)
        \/ RunFetch(t)

\* the token and user id pairs held by the AuthStates
Credentials(hp) == {<<hp[r].token, hp[r].user_id>> : r \in Refs}

\* C19: no step of a Worker on a pool thread writes the state the UI shows:
\* the token and user id of an AuthState, the catalog, the transport.  These
\* are written on the UI thread only, when a callback is delivered.
C19_WorkersWriteNothing ==
    [][WorkerStep =>
          /\ Credentials(heap') \subseteq Credentials(heap)
          /\ catalog' = catalog
          /\ bar' = bar]_vars

---------------------------------------------------------------------------
\* the Workers in the pool whose function has sent its HTTP request
SentCount(tk) ==
    LET S == {t \in BagToSet(tk) : t.sent > 0}
    IN  IF S = {} THEN 0 ELSE BagCardinality([t \in S |-> tk[t]])

\* the Workers handed to the pool that have not run yet
QueuedCount(tk) ==
    LET S == {t \in BagToSet(tk) : t.st = "queued"}
    IN  IF S = {} THEN 0 ELSE BagCardinality([t \in S |-> tk[t]])

\* C20: every HTTP request (initiate, poll, exchange, track listing, cover and
\* preview image) is sent by a step of a Worker that had been handed to the
\* pool and was waiting to run; no step of the UI thread sends one.
C20_RequestsInWorkers ==
    [][SentCount(tasks') > SentCount(tasks)
          => /\ WorkerStep
             /\ QueuedCount(tasks') = QueuedCount(tasks) - 1]_vars

\* an authenticated window whose Worker has fetched the cover of the track
\* being played, the signal of the fetch waiting for the UI thread
C20_Witness ==
    /\ Authenticated
    /\ \E t \in BagToSet(tasks) :
          t.kind = "cover" /\ t.sent = 1 /\ t.st = "emitted" /\ t.pending # <<>>

---------------------------------------------------------------------------
\* C21: a track listing without user id fails with the not-authenticated error
\* before any HTTP request is sent, whatever the server would answer; the UI
\* never hands the pool a track listing for a client without user id; and
\* load_tracks without a session routes to onboarding, dispatches nothing and
\* leaves the catalog unchanged.
C21_NoListingWithoutUser ==
    /\ [](/\ \A r \in TracksResponses :
                list_all_tracks(None, r) = Raised("RuntimeError")
          /\ \A t \in BagToSet(tasks) :
                /\ (t.kind = "tracks" /\ t.res.exc = "RuntimeError") => t.sent = 0
                /\ (t.kind = "tracks" /\ t.st = "queued")
                      => truthy(heap[t.client].user_id))
    /\ [][((Refresh \/ LoadTracksShot) /\ ~HasSession(mainClient, heap))
             => /\ mainStack' = 0
                /\ catalog' = catalog
                /\ tasks' = tasks]_vars

---------------------------------------------------------------------------
\* C22: a completed track fetch replaces the whole catalog with the ordered
\* records of the response of that fetch, in the order of the response: the
\* catalog is never a mix of two responses, whatever the order in which two
\* outstanding fetches complete; a failed fetch leaves the catalog as it was;
\* and nothing else writes the catalog.
C22_CatalogIsOneResponse ==
    /\ [](/\ catalog \in Libraries
          /\ \A t \in BagToSet(tasks) :
                (t.kind = "tracks" /\ t.res.tag = "value") => t.res.data.Items \in Libraries)
    /\ [][/\ \A t \in BagToSet(tasks) :
                (t.kind = "tracks" /\ Deliver(t))
                   => catalog' = IF Head(t.pending) = "finished"
                                 THEN t.res.data.Items ELSE catalog
          /\ catalog' # catalog
                => \E t \in BagToSet(tasks) :
                      t.kind = "tracks" /\ Head(t.pending) = "finished" /\ Deliver(t)]_vars

\* the catalog shows one library while two fetches have completed in Workers,
\* one with another library and one with a failure, their signals not yet
\* delivered
C22_Witness ==
    /\ catalog = <<"i3">>
    /\ \E t \in BagToSet(tasks) :
          t.kind = "tracks" /\ t.pending = <<"finished">> /\ t.res.data.Items = <<"i2", "i1">>
    /\ \E t \in BagToSet(tasks) :
          t.kind = "tracks" /\ t.pending = <<"error">>

---------------------------------------------------------------------------
\* C23: every client operation that receives a status outside 200..299, the
\* 404 of the poll excepted, raises: the Worker emits error for it and the
\* operation returns no value.
C23_NonSuccessRaises ==
    (/\ call.pc = "done"
     /\ (call.r.status < 200 \/ call.r.status > 299)
     /\ ~(call.op = "quickconnect_state" /\ call.r.status = 404))
        => /\ call.out.tag = "raise"
           /\ call.sig = <<"error">>

---------------------------------------------------------------------------
\* C24: the poll of a secret the server does not know (404) returns the value
\* {Authenticated: False, Error: "Unknown quick connect secret"} whatever the
\* body, and the Worker delivers it with finished, not error; every other
\* status of the poll outside 200..299 is raised and delivered with error.
C24_UnknownSecretIsAValue ==
    (call.pc = "done" /\ call.op = "quickconnect_state")
        => IF call.r.status = 404
           THEN /\ call.out = Value([NoData EXCEPT !.Error = "Unknown quick connect secret"])
                /\ ~call.out.data.Authenticated
                /\ call.sig = <<"finished">>
           ELSE (call.r.status < 200 \/ call.r.status > 299)
                   => /\ call.out.tag = "raise"
                      /\ call.sig = <<"error">>

---------------------------------------------------------------------------
\* C25: the exchange is sent with the secret whose poll reported
\* Authenticated = true: when the Worker of an exchange runs, the secret it
\* reads from the widget is the secret of the poll that dispatched it, also
\* when the result of an initiate has been delivered in between.
C25_ExchangeSendsPolledSecret ==
    [][\A t \in BagToSet(tasks) :
          (t.kind = "exchange" /\ t.st = "queued" /\ RunExchange(t))
             => secret = t.secret]_vars

---------------------------------------------------------------------------
\* C26: once the machine is Authenticated the poll timer is stopped, and as
\* long as it stays Authenticated no step hands a further poll or initiate to
\* the pool, for every interleaving of the Workers and their callbacks.
C26_AuthenticatedIsQuiet ==
    /\ [](Authenticated => ~timerActive)
    /\ [][(Authenticated /\ Authenticated')
             => /\ Outstanding("poll")' <= Outstanding("poll")
                /\ Outstanding("initiate")' <= Outstanding("initiate")]_vars

---------------------------------------------------------------------------
\* C27: from Pairing, on a server on which every request succeeds and that
\* approves the polled code at some point, fair scheduling leads to
\* Authenticated; at the step that makes the machine Authenticated the token
\* and the user id of the session are persisted and a track listing is handed
\* to the pool.
C27_PairingCompletes ==
    /\ Pairing ~> Authenticated
    /\ [][(~Authenticated /\ Authenticated')
             => /\ settings'.token = heap'[mainClient'].token
                /\ settings'.user_id = heap'[mainClient'].user_id
                /\ \E t \in BagToSet(tasks') :
                      /\ t.kind = "tracks" /\ t.st = "queued"
                      /\ t.client = mainClient']_vars

---------------------------------------------------------------------------
\* C28: after an exchange that failed (the exchanges dispatched for the shown
\* code have all been delivered and the machine is still Pairing) the poll
\* timer is stopped, and no poll, initiate or exchange is handed to the pool
\* unless the user requests a new code or enters the server again.
C28_FailedExchangeWaitsForUser ==
    /\ []((Pairing /\ session > 0 /\ Outstanding("exchange") = 0) => ~timerActive)
    /\ [][(Pairing /\ session > 0 /\ Outstanding("exchange") = 0)
             => \/ GetNewCode
                \/ \E text \in InputTexts : start_quickconnect(text)
                \/ /\ Outstanding("poll")' <= Outstanding("poll")
                   /\ Outstanding("initiate")' <= Outstanding("initiate")
                   /\ Outstanding("exchange")' <= Outstanding("exchange")]_vars

---------------------------------------------------------------------------
\* C29: while no session is persisted and no exchange is under way (after a
\* logout and until a new authentication succeeds) no client that the main
\* window, the onboarding widget or a Worker still holds carries a token, so
\* no stream or image URL is built with one, and no request a Worker sends
\* has a Token field in its authorization header.
C29_LogoutRetiresToken ==
    /\ []((~truthy(settings.token) /\ Outstanding("exchange") = 0)
            => \A r \in LiveOf(mainClient, obClient, tasks) : ~truthy(heap[r].token))
    /\ [][(~truthy(settings.token) /\ Outstanding("exchange") = 0 /\ WorkerStep)
             => \A t \in BagToSet(tasks') \ BagToSet(tasks) :
                   \A i \in 1 .. Len(t.auth) : t.auth[i].k # "Token"]_vars

---------------------------------------------------------------------------
\* C30: a token is only held for the server that issued it: every client
\* that the main window, the onboarding widget or a Worker holds and that has
\* a token has the server of the exchange that produced the token (here the
\* one server that is ever paired with), across saves of the settings that
\* change the server and across restarts.
C30_TokenStaysWithIssuer ==
    \A r \in LiveOf(mainClient, obClient, tasks) :
        truthy(heap[r].token) => heap[r].server = Issuer

=============================================================================
